---- MODULE Spec2Model ----
(***************************************************************************)
(* FRAUDULINK: the scam detector (src/ml_model/detector.py) and the way    *)
(* the two web applications (src/app.py, src/backend/app.py) construct and *)
(* share it.                                                               *)
(*                                                                         *)
(* Text is a sequence of one-character strings.  A probability is a        *)
(* fraction num/ProbDen; a number carries the Python type that holds it    *)
(* ("np.float64" out of the classifier, "float" after float()).  The two   *)
(* pickled artifacts are opaque to the repository: the vectorizer is       *)
(* modelled as a fitted one-term vocabulary (an L2-normalised TF-IDF row   *)
(* over one term is 1 when the term occurs and 0 otherwise), the           *)
(* classifier as a table from feature vectors to a predicted class and a   *)
(* probability row that sums to one.                                       *)
(***************************************************************************)
EXTENDS Integers, Sequences, FiniteSets, TLC

\* ------------------------------------------------------------------ bounds
\* longest input text explored by the sequential specification
MaxLen == 3
\* probabilities are the fractions 0/ProbDen .. ProbDen/ProbDen
ProbDen == 5

\* ------------------------------------------------------------- input domain
\* characters of the explored texts: two letters of different case, a blank,
\* two ASCII punctuation characters
Chars == {"A", "b", " ", "!", "?"}

Texts == UNION {[1..n -> Chars] : n \in 0..MaxLen}

\* texts of the concurrent specification: empty, blank, plain, punctuated
ConcTexts == {<<>>, <<" ">>, <<"A">>, <<"b", "!">>}

\* threads of the web server that call the shared detector
Callers == {"c1", "c2"}

\* ------------------------------------------------------------ string helpers
\* string.punctuation; a TLA+ string cannot hold the grave accent, which is
\* written "grave" here
Punctuation ==
    {"!", "\"", "#", "$", "%", "&", "'", "(", ")", "*", "+", ",", "-", ".",
     "/", ":", ";", "<", "=", ">", "?", "@", "[", "\\", "]", "^", "_", "grave",
     "{", "|", "}", "~"}

\* the characters str.strip() removes, among the ASCII ones
Whitespace == {" ", "\t", "\n", "\r"}

\* not text.strip(): nothing is left once the whitespace is stripped
IsBlank(text) == \A i \in 1..Len(text) : text[i] \in Whitespace

\* ------------------------------------------------------------------ numbers
NpFloat(n) == [type |-> "np.float64", num |-> n]
PyFloat(n) == [type |-> "float", num |-> n]
NoFloat == [type |-> "none", num |-> 0]

\* float(x): a Python float of the same value
Float(x) == [type |-> "float", num |-> x.num]

\* the thresholds 0.8 and 0.6 of the risk policy, in tenths
HighTenths == 8
MediumTenths == 6

\* confidence >= 0.8 and confidence >= 0.6, on fractions num/ProbDen
AtLeastHigh(confidence) == confidence.num * 10 >= HighTenths * ProbDen
AtLeastMedium(confidence) == confidence.num * 10 >= MediumTenths * ProbDen

\* ---------------------------------------------------------------- artifacts
Vectors == {0, 1}

Vectorizers == [term : {"A", "b"}]
NoVectorizer == [term |-> ""]

Models ==
    [hasProba : {TRUE}, predict : [Vectors -> {0, 1}], scamProb : [Vectors -> 0..ProbDen]]
    \cup
    [hasProba : {FALSE}, predict : [Vectors -> {0, 1}], scamProb : [Vectors -> {0}]]
NoModel == [hasProba |-> FALSE, predict |-> [v \in Vectors |-> -1],
            scamProb |-> [v \in Vectors |-> -1]]

\* self.vectorizer.transform([processed_text])
Transform(vz, processed_text) ==
    IF \E i \in 1..Len(processed_text) : processed_text[i] = vz.term THEN 1 ELSE 0

\* self.model.predict(vector)[0]
ModelPredict(m, vector) == m.predict[vector]

\* self.model.predict_proba(vector)[0]: the row <<P(class 0), P(class 1)>>
ModelPredictProba(m, vector) ==
    <<NpFloat(m.scamProb[vector]), NpFloat(ProbDen - m.scamProb[vector])>>

\* ------------------------------------------------------------ pure functions
\* a preprocessor that keeps letters and digits only, dropping blanks as well
RECURSIVE preprocess_text_alnum(_)
preprocess_text_alnum(text) ==
    IF text = <<>> THEN <<>>
    ELSE IF Head(text) \notin Punctuation \cup Whitespace
         THEN <<Head(text)>> \o preprocess_text_alnum(Tail(text))
         ELSE preprocess_text_alnum(Tail(text))

\* a preprocessor that puts a blank where a punctuation character stood
RECURSIVE preprocess_text_blanked(_)
preprocess_text_blanked(text) ==
    IF text = <<>> THEN <<>>
    ELSE IF Head(text) \notin Punctuation
         THEN <<Head(text)>> \o preprocess_text_blanked(Tail(text))
         ELSE <<" ">> \o preprocess_text_blanked(Tail(text))

RECURSIVE preprocess_text(_)
preprocess_text(text) ==
    IF text = <<>> THEN <<>>
    ELSE IF Head(text) \notin Punctuation
         THEN <<Head(text)>> \o preprocess_text(Tail(text))
         ELSE preprocess_text(Tail(text))

\* the probability of class 0 whatever was predicted
ProbaConfidenceScamOnly(probabilities, prediction) == probabilities[1]

\* line 83: the probability of the predicted class
ProbaConfidence(probabilities, prediction) ==
    IF prediction = 0 THEN probabilities[1] ELSE probabilities[2]

\* line 86: the classifier has no predict_proba
FallbackConfidence(prediction) ==
    IF prediction = 0 THEN PyFloat(ProbDen) ELSE PyFloat(0)

\* the buckets with exclusive boundaries
get_risk_level_exclusive(confidence, is_scam) ==
    IF ~is_scam THEN "LOW"
    ELSE IF AtLeastHigh(confidence) /\ confidence.num * 10 # HighTenths * ProbDen THEN "HIGH"
    ELSE IF AtLeastMedium(confidence) /\ confidence.num * 10 # MediumTenths * ProbDen THEN "MEDIUM"
    ELSE "LOW"

\* the buckets applied without looking at is_scam
get_risk_level_any_class(confidence, is_scam) ==
    IF AtLeastHigh(confidence) THEN "HIGH"
    ELSE IF AtLeastMedium(confidence) THEN "MEDIUM"
    ELSE "LOW"

get_risk_level(confidence, is_scam) ==
    IF ~is_scam THEN "LOW"
    ELSE IF AtLeastHigh(confidence) THEN "HIGH"
    ELSE IF AtLeastMedium(confidence) THEN "MEDIUM"
    ELSE "LOW"

\* the confidence reported as a percentage
MakeResultPercent(text, processed_text, prediction, confidence) ==
    LET is_scam == (prediction = 0) IN
    [is_scam |-> is_scam,
     confidence |-> PyFloat(confidence.num * 100),
     label |-> IF is_scam THEN "SCAM" ELSE "SAFE",
     original_text |-> text,
     processed_text |-> processed_text,
     risk_level |-> get_risk_level(Float(confidence), is_scam)]

\* class 1 taken for the scam class when the label is chosen
MakeResultLabelSwapped(text, processed_text, prediction, confidence) ==
    LET is_scam == (prediction = 0) IN
    [is_scam |-> is_scam,
     confidence |-> Float(confidence),
     label |-> IF prediction = 1 THEN "SCAM" ELSE "SAFE",
     original_text |-> text,
     processed_text |-> processed_text,
     risk_level |-> get_risk_level(Float(confidence), is_scam)]

\* the cleaned text stored under original_text as well
MakeResultOriginalOverwritten(text, processed_text, prediction, confidence) ==
    LET is_scam == (prediction = 0) IN
    [is_scam |-> is_scam,
     confidence |-> Float(confidence),
     label |-> IF is_scam THEN "SCAM" ELSE "SAFE",
     original_text |-> processed_text,
     processed_text |-> processed_text,
     risk_level |-> get_risk_level(Float(confidence), is_scam)]

\* lines 88-97: the returned dictionary
MakeResult(text, processed_text, prediction, confidence) ==
    LET is_scam == (prediction = 0) IN
    [is_scam |-> is_scam,
     confidence |-> Float(confidence),
     label |-> IF is_scam THEN "SCAM" ELSE "SAFE",
     original_text |-> text,
     processed_text |-> processed_text,
     risk_level |-> get_risk_level(Float(confidence), is_scam)]

NoResult ==
    [is_scam |-> FALSE, confidence |-> NoFloat, label |-> "",
     original_text |-> <<>>, processed_text |-> <<>>, risk_level |-> ""]

\* analyze run from its first line to its last with nothing in between
analyze(m, vz, text) ==
    LET processed_text == preprocess_text(text)
        vector == Transform(vz, processed_text)
        prediction == ModelPredict(m, vector)
        confidence == IF m.hasProba
                      THEN ProbaConfidence(ModelPredictProba(m, vector), prediction)
                      ELSE FallbackConfidence(prediction)
    IN MakeResult(text, processed_text, prediction, confidence)

\* --------------------------------------------------------------------- state
VARIABLES
    startup,     \* where the importing process is: "load_model", "load_vectorizer", "ready", "crashed"
    model,       \* self.model
    vectorizer,  \* self.vectorizer
    detector,    \* the module-level name detector: "unbound" or "bound"
    call,        \* per caller, the frame of its analyze call
    req,         \* per caller, the HTTP request its route handler is serving
    gem,         \* the frame of one call_gemini call
    ga           \* the frame of one get_full_gemini_analysis call

\* the state outside the detector
rest == <<req, gem, ga>>

vars == <<startup, model, vectorizer, detector, call, rest>>

IdleFrame ==
    [pc |-> "idle", text |-> <<>>, processed_text |-> <<>>, vector |-> -1,
     prediction |-> -1, confidence |-> NoFloat, result |-> NoResult]

\* ---------------------------------------------------------------- web layer
\* request bodies of the web specification: texts over a letter, a blank and
\* a punctuation character, or a body without the key text
WebChars == {"A", " ", "!"}
WebTexts == UNION {[1..n -> WebChars] : n \in 0..MaxLen}
Bodies == [hasText : {TRUE}, text : WebTexts] \cup [hasText : {FALSE}, text : {<<>>}]

Apps == {"flask", "fastapi"}

\* the status codes the two analyze routes answer with
HTTP_OK == 200
HTTP_BAD_REQUEST == 400
HTTP_UNPROCESSABLE == 422

RECURSIVE LStrip(_)
LStrip(text) ==
    IF text # <<>> /\ Head(text) \in Whitespace THEN LStrip(Tail(text)) ELSE text

RECURSIVE RStrip(_)
RStrip(text) ==
    IF text # <<>> /\ text[Len(text)] \in Whitespace
    THEN RStrip(SubSeq(text, 1, Len(text) - 1))
    ELSE text

\* str.strip()
Strip(text) == RStrip(LStrip(text))

IdleRequest ==
    [pc |-> "idle", app |-> "", body |-> [hasText |-> FALSE, text |-> <<>>],
     status |-> 0, called |-> FALSE]

\* ----------------------------------------------------------------- call_gemini
\* largest max_retries explored
MaxRetries == 3

\* an exception in flight: its class and whether its message contains "quota"
NoError == [kind |-> "none", quota |-> FALSE]
ErrorKinds ==
    {"none", "ValueError", "RequestException", "HTTPError", "ParseError",
     "QuotaExceeded", "MaxRetriesExceeded"}
Errors == [kind : ErrorKinds, quota : BOOLEAN]

\* a response: its status code and whether its body is JSON of the expected shape
NoResponse == [status |-> 0, json_ok |-> FALSE]
HTTP_TOO_MANY == 429
HTTP_SERVER_ERROR == 500
Responses == [status : {HTTP_OK, HTTP_TOO_MANY, HTTP_SERVER_ERROR}, json_ok : BOOLEAN]

\* min((attempt + 1) * 10, 30)
RateLimitWait(attempt) ==
    IF (attempt + 1) * 10 < 30 THEN (attempt + 1) * 10 ELSE 30

\* time.sleep(2) of the generic handler
GenericWait == 2

IdleGemini ==
    [pc |-> "idle", max_retries |-> 0, attempt |-> 0, posts |-> 0,
     response |-> NoResponse, error |-> NoError, last_error |-> NoError, wait |-> 0]

GeminiFrames ==
    [pc : {"idle", "loop", "post", "status", "raise_for_status", "parse",
           "http_error", "except", "sleep", "returned", "raised"},
     max_retries : 0..MaxRetries,
     attempt : 0..MaxRetries,
     posts : 0..MaxRetries,
     response : Responses \cup {NoResponse},
     error : Errors,
     last_error : Errors,
     wait : {0, GenericWait, 10, 20, 30}]

\* ----------------------------------------------------- get_full_gemini_analysis
\* a key the dictionary does not hold
Absent == "<absent>"
\* a local still None
None == "<None>"
\* what call_gemini(...).strip() can be: empty, or some text; "tr" is a translation
GeminiTexts == {"", "t"}
Values == {"", "t", "tr", "error"}

ResultKeys ==
    {"gemini_explanation", "scam_tactics", "scam_type", "safety_tips", "gemini_error"}
EmptyDict == [k \in ResultKeys |-> Absent]

\* output_lang_code and output_language as the Flask route passes them: "en";
\* a supported code with its language name; an unsupported code, named English
Languages == {"en", "other", "unsupported"}

IdleAnalysis ==
    [pc |-> "idle", is_scam |-> FALSE, lang |-> "en",
     explanation |-> None, tactics |-> None, scam_type |-> None, tips |-> None,
     result |-> EmptyDict]

AnalysisFrames ==
    [pc : {"idle", "explanation", "tactics", "scam_type", "tips", "store",
           "tr_explanation", "tr_tactics", "tr_scam_type", "tr_tips",
           "returned", "raised"},
     is_scam : BOOLEAN,
     lang : Languages,
     explanation : GeminiTexts \cup {None},
     tactics : GeminiTexts \cup {None},
     scam_type : GeminiTexts \cup {None},
     tips : GeminiTexts \cup {None},
     result : [ResultKeys -> Values \cup {Absent}]]

\* if x: neither None nor the empty string
Truthy(x) == x \notin {None, ""}

\* translate_text (lines 178-187): the text itself for English, else the
\* stripped answer of call_gemini, or the text when call_gemini raised
TranslateText(text, lang) ==
    IF lang \in {"en", "unsupported"} THEN {text} ELSE {text, "tr", ""}

Frames ==
    [pc : {"idle", "preprocess", "transform", "predict", "confidence", "return", "done"},
     text : Texts,
     processed_text : Texts,
     vector : Vectors \cup {-1},
     prediction : {-1, 0, 1},
     confidence : [type : {"none", "float", "np.float64"}, num : 0..ProbDen],
     result : [is_scam : BOOLEAN,
               confidence : [type : {"none", "float"}, num : 0..ProbDen],
               label : {"", "SCAM", "SAFE"},
               original_text : Texts,
               processed_text : Texts,
               risk_level : {"", "LOW", "MEDIUM", "HIGH"}]]

\* the shape of the state
TypeOK ==
    /\ startup \in {"load_model", "load_vectorizer", "ready", "crashed"}
    /\ model \in Models \cup {NoModel}
    /\ vectorizer \in Vectorizers \cup {NoVectorizer}
    /\ detector \in {"unbound", "bound"}
    /\ call \in [Callers -> Frames]
    /\ req \in [Callers ->
                 [pc : {"idle", "received", "handler", "analyzing", "responded"},
                  app : Apps \cup {""},
                  body : Bodies,
                  status : {0, HTTP_OK, HTTP_BAD_REQUEST, HTTP_UNPROCESSABLE},
                  called : BOOLEAN]]
    /\ gem \in GeminiFrames
    /\ ga \in AnalysisFrames

Init ==
    /\ startup = "load_model"
    /\ model = NoModel
    /\ vectorizer = NoVectorizer
    /\ detector = "unbound"
    /\ call = [c \in Callers |-> IdleFrame]
    /\ req = [c \in Callers |-> IdleRequest]
    /\ gem = IdleGemini
    /\ ga = IdleAnalysis

\* ------------------------------------------------------------------- startup
\* lines 36-37: open and unpickle the model; an exception leaves __init__
LoadModel ==
    /\ startup = "load_model"
    /\ \/ /\ \E m \in Models : model' = m
          /\ startup' = "load_vectorizer"
       \/ /\ startup' = "crashed"
          /\ UNCHANGED model
    /\ UNCHANGED <<vectorizer, detector, call, rest>>

\* a constructor that swallows the vectorizer's load failure
LoadVectorizerDeferred ==
    /\ startup = "load_vectorizer"
    /\ \/ \E vz \in Vectorizers : vectorizer' = vz
       \/ UNCHANGED vectorizer
    /\ startup' = "ready"
    /\ detector' = "bound"
    /\ UNCHANGED <<model, call, rest>>

\* lines 38-39, then the binding detector = ScamDetector()
LoadVectorizer ==
    /\ startup = "load_vectorizer"
    /\ \/ /\ \E vz \in Vectorizers : vectorizer' = vz
          /\ startup' = "ready"
          /\ detector' = "bound"
       \/ /\ startup' = "crashed"
          /\ UNCHANGED <<vectorizer, detector>>
    /\ UNCHANGED <<model, call, rest>>

\* ------------------------------------------------------------------- analyze
\* detector.analyze(text) is entered
Call(c, T) ==
    /\ detector = "bound"
    /\ call[c].pc = "idle"
    /\ \E text \in T :
         call' = [call EXCEPT ![c] = [IdleFrame EXCEPT !.pc = "preprocess", !.text = text]]
    /\ UNCHANGED <<startup, model, vectorizer, detector, rest>>

\* line 71
Preprocess(c) ==
    /\ call[c].pc = "preprocess"
    /\ call' = [call EXCEPT ![c].processed_text = preprocess_text(call[c].text),
                            ![c].pc = "transform"]
    /\ UNCHANGED <<startup, model, vectorizer, detector, rest>>

\* line 74
Vectorize(c) ==
    /\ call[c].pc = "transform"
    /\ call' = [call EXCEPT ![c].vector = Transform(vectorizer, call[c].processed_text),
                            ![c].pc = "predict"]
    /\ UNCHANGED <<startup, model, vectorizer, detector, rest>>

\* a prediction that also refits the shared classifier on its own answer
PredictAndRefit(c) ==
    /\ call[c].pc = "predict"
    /\ call' = [call EXCEPT ![c].prediction = ModelPredict(model, call[c].vector),
                            ![c].pc = "confidence"]
    /\ model' = [model EXCEPT !.scamProb[call[c].vector] =
                    IF ModelPredict(model, call[c].vector) = 0 THEN ProbDen ELSE 0]
    /\ UNCHANGED <<startup, vectorizer, detector, rest>>

\* line 77
Predict(c) ==
    /\ call[c].pc = "predict"
    /\ call' = [call EXCEPT ![c].prediction = ModelPredict(model, call[c].vector),
                            ![c].pc = "confidence"]
    /\ UNCHANGED <<startup, model, vectorizer, detector, rest>>

\* a classifier whose stored probability decays each time it is asked
ConfidenceAndDecay(c) ==
    /\ call[c].pc = "confidence"
    /\ call' = [call EXCEPT
                  ![c].confidence =
                      IF model.hasProba
                      THEN ProbaConfidence(ModelPredictProba(model, call[c].vector),
                                           call[c].prediction)
                      ELSE FallbackConfidence(call[c].prediction),
                  ![c].pc = "return"]
    /\ model' = [model EXCEPT !.scamProb[call[c].vector] = IF @ > 0 THEN @ - 1 ELSE @]
    /\ UNCHANGED <<startup, vectorizer, detector, rest>>

\* lines 80-86
Confidence(c) ==
    /\ call[c].pc = "confidence"
    /\ call' = [call EXCEPT
                  ![c].confidence =
                      IF model.hasProba
                      THEN ProbaConfidence(ModelPredictProba(model, call[c].vector),
                                           call[c].prediction)
                      ELSE FallbackConfidence(call[c].prediction),
                  ![c].pc = "return"]
    /\ UNCHANGED <<startup, model, vectorizer, detector, rest>>

\* lines 88-97
Return(c) ==
    /\ call[c].pc = "return"
    /\ call' = [call EXCEPT
                  ![c].result = MakeResult(call[c].text, call[c].processed_text,
                                           call[c].prediction, call[c].confidence),
                  ![c].pc = "done"]
    /\ UNCHANGED <<startup, model, vectorizer, detector, rest>>

\* the caller takes the dictionary; the frame is gone
Respond(c) ==
    /\ call[c].pc = "done"
    /\ call' = [call EXCEPT ![c] = IdleFrame]
    /\ UNCHANGED <<startup, model, vectorizer, detector, rest>>

\* one caller at a time, every text up to MaxLen
Next ==
    \/ LoadModel
    \/ LoadVectorizer
    \/ Call("c1", Texts)
    \/ Preprocess("c1")
    \/ Vectorize("c1")
    \/ Predict("c1")
    \/ Confidence("c1")
    \/ Return("c1")
    \/ Respond("c1")

Spec == Init /\ [][Next]_vars

\* the callers interleaved at every line of analyze
NextConc ==
    \/ LoadModel
    \/ LoadVectorizer
    \/ \E c \in Callers :
         \/ Call(c, ConcTexts)
         \/ Preprocess(c)
         \/ Vectorize(c)
         \/ Predict(c)
         \/ Confidence(c)
         \/ Return(c)
         \/ Respond(c)

SpecConc == Init /\ [][NextConc]_vars

\* ------------------------------------------------------------- analyze routes
core == <<startup, model, vectorizer, detector>>

\* a POST reaches /analyze (Flask) or /api/analyze (FastAPI) of a serving process
Receive(c, app, body) ==
    /\ detector = "bound"
    /\ req[c].pc = "idle"
    /\ call[c].pc = "idle"
    /\ req' = [req EXCEPT ![c] = [IdleRequest EXCEPT !.pc = "received", !.app = app, !.body = body]]
    /\ UNCHANGED <<core, call, gem, ga>>

\* the answer of a route that returns before calling the detector
Reject(c, status) == [req EXCEPT ![c].pc = "responded", ![c].status = status]

\* the route hands text to detector.analyze
Enter(c, text) ==
    /\ call' = [call EXCEPT ![c] = [IdleFrame EXCEPT !.pc = "preprocess", !.text = text]]
    /\ req' = [req EXCEPT ![c].pc = "analyzing", ![c].called = TRUE]

\* a Flask route that tests the text before stripping it
FlaskAnalyzeUnstripped(c) ==
    /\ req[c].pc = "received"
    /\ req[c].app = "flask"
    /\ IF ~req[c].body.hasText \/ req[c].body.text = <<>>
       THEN req' = Reject(c, HTTP_BAD_REQUEST) /\ UNCHANGED call
       ELSE Enter(c, Strip(req[c].body.text))
    /\ UNCHANGED <<core, gem, ga>>

\* src/app.py lines 138-151
FlaskAnalyze(c) ==
    /\ req[c].pc = "received"
    /\ req[c].app = "flask"
    /\ IF ~req[c].body.hasText
       THEN req' = Reject(c, HTTP_BAD_REQUEST) /\ UNCHANGED call
       ELSE LET text == Strip(req[c].body.text) IN
            IF text = <<>>
            THEN req' = Reject(c, HTTP_BAD_REQUEST) /\ UNCHANGED call
            ELSE Enter(c, text)
    /\ UNCHANGED <<core, gem, ga>>

\* src/backend/app.py lines 44-46, 78-79: the body is parsed into
\* TextAnalysisRequest, whose text is required, before the handler runs
FastApiValidate(c) ==
    /\ req[c].pc = "received"
    /\ req[c].app = "fastapi"
    /\ IF ~req[c].body.hasText
       THEN req' = Reject(c, HTTP_UNPROCESSABLE)
       ELSE req' = [req EXCEPT ![c].pc = "handler"]
    /\ UNCHANGED <<core, call, gem, ga>>

\* src/backend/app.py lines 89-93
FastApiAnalyzeText(c) ==
    /\ req[c].pc = "handler"
    /\ IF req[c].body.text = <<>> \/ Strip(req[c].body.text) = <<>>
       THEN req' = Reject(c, HTTP_BAD_REQUEST) /\ UNCHANGED call
       ELSE Enter(c, req[c].body.text)
    /\ UNCHANGED <<core, gem, ga>>

\* the route builds its answer from the returned dictionary
RouteRespond(c) ==
    /\ req[c].pc = "analyzing"
    /\ call[c].pc = "done"
    /\ call' = [call EXCEPT ![c] = IdleFrame]
    /\ req' = [req EXCEPT ![c].pc = "responded", ![c].status = HTTP_OK]
    /\ UNCHANGED <<core, gem, ga>>

\* the answer is sent; the handler is free for the next request
Close(c) ==
    /\ req[c].pc = "responded"
    /\ req' = [req EXCEPT ![c] = IdleRequest]
    /\ UNCHANGED <<core, call, gem, ga>>

\* one handler serving requests of either application
NextWeb ==
    \/ LoadModel
    \/ LoadVectorizer
    \/ \E app \in Apps, body \in Bodies : Receive("c1", app, body)
    \/ FlaskAnalyze("c1")
    \/ FastApiValidate("c1")
    \/ FastApiAnalyzeText("c1")
    \/ Preprocess("c1")
    \/ Vectorize("c1")
    \/ Predict("c1")
    \/ Confidence("c1")
    \/ Return("c1")
    \/ RouteRespond("c1")
    \/ Close("c1")

SpecWeb == Init /\ [][NextWeb]_vars

\* --------------------------------------------------------------- call_gemini
Raise(e) == [gem EXCEPT !.pc = "raised", !.error = e]

\* src/app.py lines 32-54: the call is entered; without an API key it raises
GeminiCall(max_retries, key_set) ==
    /\ detector = "bound"
    /\ gem.pc = "idle"
    /\ gem' = IF key_set
              THEN [IdleGemini EXCEPT !.pc = "loop", !.max_retries = max_retries]
              ELSE [IdleGemini EXCEPT !.pc = "raised", !.max_retries = max_retries,
                                      !.error = [kind |-> "ValueError", quota |-> FALSE]]
    /\ UNCHANGED <<core, call, req, ga>>

\* line 55, and line 89 when the range is exhausted
GeminiLoop ==
    /\ gem.pc = "loop"
    /\ gem' = IF gem.attempt < gem.max_retries
              THEN [gem EXCEPT !.pc = "post"]
              ELSE Raise(IF gem.last_error # NoError THEN gem.last_error
                         ELSE [kind |-> "MaxRetriesExceeded", quota |-> FALSE])
    /\ UNCHANGED <<core, call, req, ga>>

\* line 57: the POST answers, or raises a connection error or a timeout
GeminiPost ==
    /\ gem.pc = "post"
    /\ \/ \E r \in Responses :
            gem' = [gem EXCEPT !.pc = "status", !.response = r, !.posts = @ + 1]
       \/ \E q \in BOOLEAN :
            gem' = [gem EXCEPT !.pc = "except", !.posts = @ + 1,
                               !.error = [kind |-> "RequestException", quota |-> q]]
    /\ UNCHANGED <<core, call, req, ga>>

\* a rate-limit branch that retries on the last attempt too
GeminiStatusAlwaysRetry ==
    /\ gem.pc = "status"
    /\ gem' = IF gem.response.status = HTTP_TOO_MANY
              THEN IF ~gem.response.json_ok
                   THEN [gem EXCEPT !.pc = "except",
                                    !.error = [kind |-> "ParseError", quota |-> FALSE]]
                   ELSE [gem EXCEPT !.pc = "sleep", !.wait = RateLimitWait(gem.attempt)]
              ELSE [gem EXCEPT !.pc = "raise_for_status"]
    /\ UNCHANGED <<core, call, req, ga>>

\* lines 60-69: the rate-limit branch
GeminiStatus ==
    /\ gem.pc = "status"
    /\ gem' = IF gem.response.status = HTTP_TOO_MANY
              THEN IF ~gem.response.json_ok
                   THEN [gem EXCEPT !.pc = "except",
                                    !.error = [kind |-> "ParseError", quota |-> FALSE]]
                   ELSE IF gem.attempt < gem.max_retries - 1
                        THEN [gem EXCEPT !.pc = "sleep", !.wait = RateLimitWait(gem.attempt)]
                        ELSE [gem EXCEPT !.pc = "except",
                                         !.error = [kind |-> "QuotaExceeded", quota |-> TRUE]]
              ELSE [gem EXCEPT !.pc = "raise_for_status"]
    /\ UNCHANGED <<core, call, req, ga>>

\* line 71
GeminiRaiseForStatus ==
    /\ gem.pc = "raise_for_status"
    /\ gem' = IF gem.response.status >= HTTP_BAD_REQUEST
              THEN [gem EXCEPT !.pc = "http_error",
                               !.error = [kind |-> "HTTPError", quota |-> FALSE]]
              ELSE [gem EXCEPT !.pc = "parse"]
    /\ UNCHANGED <<core, call, req, ga>>

\* lines 72-73
GeminiParse ==
    /\ gem.pc = "parse"
    /\ gem' = IF gem.response.json_ok
              THEN [gem EXCEPT !.pc = "returned"]
              ELSE [gem EXCEPT !.pc = "except",
                               !.error = [kind |-> "ParseError", quota |-> FALSE]]
    /\ UNCHANGED <<core, call, req, ga>>

\* lines 75-81
GeminiHTTPError ==
    /\ gem.pc = "http_error"
    /\ gem' = IF gem.response.status = HTTP_TOO_MANY /\ gem.attempt < gem.max_retries - 1
              THEN [gem EXCEPT !.pc = "sleep", !.last_error = gem.error,
                               !.wait = RateLimitWait(gem.attempt)]
              ELSE [gem EXCEPT !.pc = "raised", !.last_error = gem.error]
    /\ UNCHANGED <<core, call, req, ga>>

\* a generic handler that retries whatever the message says
GeminiExceptIgnoringQuota ==
    /\ gem.pc = "except"
    /\ gem' = IF gem.attempt < gem.max_retries - 1
              THEN [gem EXCEPT !.pc = "sleep", !.last_error = gem.error, !.wait = GenericWait]
              ELSE [gem EXCEPT !.pc = "raised", !.last_error = gem.error]
    /\ UNCHANGED <<core, call, req, ga>>

\* lines 82-87
GeminiExcept ==
    /\ gem.pc = "except"
    /\ gem' = IF gem.attempt < gem.max_retries - 1 /\ ~gem.error.quota
              THEN [gem EXCEPT !.pc = "sleep", !.last_error = gem.error, !.wait = GenericWait]
              ELSE [gem EXCEPT !.pc = "raised", !.last_error = gem.error]
    /\ UNCHANGED <<core, call, req, ga>>

\* time.sleep(wait) returns and continue takes the loop to the next attempt
GeminiSleep ==
    /\ gem.pc = "sleep"
    /\ gem' = [gem EXCEPT !.pc = "loop", !.attempt = @ + 1, !.error = NoError, !.wait = 0]
    /\ UNCHANGED <<core, call, req, ga>>

\* the caller has the text or the exception; the frame is gone
GeminiFinish ==
    /\ gem.pc \in {"returned", "raised"}
    /\ gem' = IdleGemini
    /\ UNCHANGED <<core, call, req, ga>>

\* the statements of call_gemini
GeminiStep ==
    \/ GeminiLoop
    \/ GeminiPost
    \/ GeminiStatus
    \/ GeminiRaiseForStatus
    \/ GeminiParse
    \/ GeminiHTTPError
    \/ GeminiExcept
    \/ GeminiSleep

NextGemini ==
    \/ LoadModel
    \/ LoadVectorizer
    \/ \E n \in 0..MaxRetries, key_set \in BOOLEAN : GeminiCall(n, key_set)
    \/ GeminiStep
    \/ GeminiFinish

\* a started call keeps running: the POST has a timeout and the sleeps end
SpecGemini == Init /\ [][NextGemini]_vars /\ WF_vars(GeminiStep)

\* ---------------------------------------------------- get_full_gemini_analysis
\* an exception leaves get_full_gemini_analysis
AnalysisErrorEscapes == [ga EXCEPT !.pc = "raised"]

\* lines 350-353: whatever is raised inside the try becomes gemini_error
AnalysisError == [ga EXCEPT !.pc = "returned", !.result["gemini_error"] = "error"]

\* lines 272-288
AnalysisCall(is_scam, lang) ==
    /\ detector = "bound"
    /\ ga.pc = "idle"
    /\ ga' = [IdleAnalysis EXCEPT !.pc = "explanation", !.is_scam = is_scam, !.lang = lang]
    /\ UNCHANGED <<core, call, req, gem>>

\* line 290, then the test of line 295
AnalysisExplanation ==
    /\ ga.pc = "explanation"
    /\ \/ \E t \in GeminiTexts :
            ga' = [ga EXCEPT !.explanation = t,
                             !.pc = IF ga.is_scam THEN "tactics" ELSE "tips"]
       \/ ga' = AnalysisError
    /\ UNCHANGED <<core, call, req, gem>>

\* line 302
AnalysisTactics ==
    /\ ga.pc = "tactics"
    /\ \/ \E t \in GeminiTexts : ga' = [ga EXCEPT !.tactics = t, !.pc = "scam_type"]
       \/ ga' = AnalysisError
    /\ UNCHANGED <<core, call, req, gem>>

\* line 313
AnalysisScamType ==
    /\ ga.pc = "scam_type"
    /\ \/ \E t \in GeminiTexts : ga' = [ga EXCEPT !.scam_type = t, !.pc = "tips"]
       \/ ga' = AnalysisError
    /\ UNCHANGED <<core, call, req, gem>>

\* line 322, then the test of line 325
AnalysisTips ==
    /\ ga.pc = "tips"
    /\ \/ \E t \in GeminiTexts :
            ga' = [ga EXCEPT !.tips = t,
                             !.pc = IF ga.lang # "en" THEN "tr_explanation" ELSE "store"]
       \/ ga' = AnalysisError
    /\ UNCHANGED <<core, call, req, gem>>

\* lines 343-348: the English results are stored
AnalysisStore ==
    /\ ga.pc = "store"
    /\ ga' = [ga EXCEPT
                !.result = [k \in ResultKeys |->
                    CASE k = "gemini_explanation" -> ga.explanation
                      [] k = "scam_tactics" -> IF Truthy(ga.tactics) THEN ga.tactics ELSE Absent
                      [] k = "scam_type" -> IF Truthy(ga.scam_type) THEN ga.scam_type ELSE Absent
                      [] k = "safety_tips" -> ga.tips
                      [] OTHER -> ga.result[k]],
                !.pc = "returned"]
    /\ UNCHANGED <<core, call, req, gem>>

\* the statement after the translation of the explanation, and so on down
AfterExplanation ==
    IF Truthy(ga.tactics) THEN "tr_tactics"
    ELSE IF Truthy(ga.scam_type) THEN "tr_scam_type" ELSE "tr_tips"
AfterTactics == IF Truthy(ga.scam_type) THEN "tr_scam_type" ELSE "tr_tips"

\* line 327; translate_text catches every exception of its call_gemini, so
\* the handler of lines 333-341 has nothing to catch
AnalysisTranslateExplanation ==
    /\ ga.pc = "tr_explanation"
    /\ \E t \in TranslateText(ga.explanation, ga.lang) :
         ga' = [ga EXCEPT !.result["gemini_explanation"] = t, !.pc = AfterExplanation]
    /\ UNCHANGED <<core, call, req, gem>>

\* lines 328-329
AnalysisTranslateTactics ==
    /\ ga.pc = "tr_tactics"
    /\ \E t \in TranslateText(ga.tactics, ga.lang) :
         ga' = [ga EXCEPT !.result["scam_tactics"] = t, !.pc = AfterTactics]
    /\ UNCHANGED <<core, call, req, gem>>

\* lines 330-331
AnalysisTranslateScamType ==
    /\ ga.pc = "tr_scam_type"
    /\ \E t \in TranslateText(ga.scam_type, ga.lang) :
         ga' = [ga EXCEPT !.result["scam_type"] = t, !.pc = "tr_tips"]
    /\ UNCHANGED <<core, call, req, gem>>

\* line 332
AnalysisTranslateTips ==
    /\ ga.pc = "tr_tips"
    /\ \E t \in TranslateText(ga.tips, ga.lang) :
         ga' = [ga EXCEPT !.result["safety_tips"] = t, !.pc = "returned"]
    /\ UNCHANGED <<core, call, req, gem>>

\* line 353: the route has the dictionary; the frame is gone
AnalysisFinish ==
    /\ ga.pc \in {"returned", "raised"}
    /\ ga' = IdleAnalysis
    /\ UNCHANGED <<core, call, req, gem>>

NextAnalysis ==
    \/ LoadModel
    \/ LoadVectorizer
    \/ \E is_scam \in BOOLEAN, lang \in Languages : AnalysisCall(is_scam, lang)
    \/ AnalysisExplanation
    \/ AnalysisTactics
    \/ AnalysisScamType
    \/ AnalysisTips
    \/ AnalysisStore
    \/ AnalysisTranslateExplanation
    \/ AnalysisTranslateTactics
    \/ AnalysisTranslateScamType
    \/ AnalysisTranslateTips
    \/ AnalysisFinish

SpecAnalysis == Init /\ [][NextAnalysis]_vars

\* -------------------------------------------------------------------- claims
Returned(c) == call[c].pc = "done"
Loaded == model \in Models /\ vectorizer \in Vectorizers

\* the k-th (from 1) position of text that holds no punctuation character
KeptIndex(text, k) ==
    CHOOSE i \in 1..Len(text) :
        /\ text[i] \notin Punctuation
        /\ Cardinality({j \in 1..(i - 1) : text[j] \notin Punctuation}) = k - 1

\* C1: analyze called with the empty string or a whitespace-only string fails
\* with an empty-input error: the call never gets past the preprocessing, so
\* it reaches neither the vectorizer nor the classifier and returns no Verdict.
C1_BlankInputRejected ==
    \A c \in Callers :
        (call[c].pc # "idle" /\ IsBlank(call[c].text))
            => call[c].pc \in {"preprocess", "transform"}

\* C2: when the classifier has no predict_proba, the confidence returned is
\* exactly 1.0 whichever class was predicted.
C2_FallbackConfidenceIsOne ==
    \A c \in Callers :
        (Returned(c) /\ ~model.hasProba)
            => call[c].result.confidence = PyFloat(ProbDen)

C4_ScamRiskBuckets ==
    \A c \in Callers :
        (Returned(c) /\ call[c].result.is_scam)
            => LET tenths == call[c].result.confidence.num * 10
                   risk == call[c].result.risk_level
               IN /\ risk \in {"HIGH", "MEDIUM", "LOW"}
                  /\ (risk = "HIGH") <=> (tenths >= HighTenths * ProbDen)
                  /\ (risk = "MEDIUM") <=> (/\ tenths >= MediumTenths * ProbDen
                                            /\ tenths < HighTenths * ProbDen)
                  /\ (risk = "LOW") <=> (tenths < MediumTenths * ProbDen)

C4_Witness ==
    \E c \in Callers :
        /\ Returned(c) /\ call[c].result.is_scam
        /\ call[c].result.confidence.num * 10 = HighTenths * ProbDen
        /\ call[c].result.risk_level = "HIGH"

\* C5: in every Verdict with is_scam false, risk_level is LOW whatever the
\* confidence is.
C5_SafeIsLowRisk ==
    \A c \in Callers :
        (Returned(c) /\ ~call[c].result.is_scam) => call[c].result.risk_level = "LOW"

C5_Witness ==
    \E c \in Callers :
        /\ Returned(c) /\ ~call[c].result.is_scam
        /\ call[c].result.confidence.num * 10 >= HighTenths * ProbDen
        /\ call[c].result.risk_level = "LOW"

\* C6: the confidence of every Verdict lies in [0.0, 1.0], with or without a
\* probability estimate.
C6_ConfidenceInUnitInterval ==
    \A c \in Callers :
        Returned(c) => /\ call[c].result.confidence.num >= 0
                       /\ call[c].result.confidence.num <= ProbDen

C6_Witness ==
    \E c \in Callers :
        /\ Returned(c) /\ model.hasProba
        /\ call[c].result.confidence.num = ProbDen

\* C7: in every Verdict the label is SCAM or SAFE, it is SCAM exactly when
\* is_scam is true, and is_scam is true exactly when class 0 was predicted.
C7_BinaryConsistentVerdict ==
    \A c \in Callers :
        Returned(c)
            => /\ call[c].result.label \in {"SCAM", "SAFE"}
               /\ (call[c].result.label = "SCAM") <=> call[c].result.is_scam
               /\ call[c].result.is_scam <=> (call[c].prediction = 0)
               /\ (call[c].result.label = "SAFE") <=> (call[c].prediction = 1)

C7_Witness ==
    \E c \in Callers :
        /\ Returned(c) /\ call[c].prediction = 1
        /\ call[c].result.label = "SAFE" /\ ~call[c].result.is_scam

\* C8: preprocess_text(T) holds no ASCII punctuation character and is exactly
\* the characters of T that are no punctuation, in their order, unchanged.
C8_PreprocessKeepsNonPunctuation ==
    \A c \in Callers :
        call[c].pc \notin {"idle", "preprocess"}
            => LET text == call[c].text
                   out == call[c].processed_text
                   kept == {i \in 1..Len(text) : text[i] \notin Punctuation}
               IN /\ \A k \in 1..Len(out) : out[k] \notin Punctuation
                  /\ Len(out) = Cardinality(kept)
                  /\ \A k \in 1..Len(out) : out[k] = text[KeptIndex(text, k)]

C8_Witness ==
    \E c \in Callers :
        /\ call[c].pc = "transform"
        /\ Len(call[c].text) = 3
        /\ call[c].text[1] = "b"
        /\ call[c].text[2] \in Punctuation
        /\ call[c].text[3] = " "
        /\ call[c].processed_text = <<"b", " ">>

\* C9: no analyze call runs unless both artifacts loaded: a load failure of
\* either artifact ends the construction with the detector unbound, and once
\* the process is ready it never fails to a load error.
C9_NoCallWithoutBothArtifacts ==
    /\ [](/\ (detector = "bound") <=> (startup = "ready")
          /\ (startup = "ready") => Loaded
          /\ \A c \in Callers : call[c].pc # "idle" => (Loaded /\ startup = "ready"))
    /\ [][/\ (startup = "ready") => (startup' = "ready")
          /\ (startup' = "crashed" /\ startup # "crashed")
                => (\A c \in Callers : call[c].pc = "idle")]_vars

C9_Witness ==
    /\ startup = "crashed"
    /\ model \in Models
    /\ vectorizer = NoVectorizer
    /\ detector = "unbound"

\* C10: once loaded, the model and the vectorizer never change, and under any
\* interleaving of the callers each call returns the Verdict analyze gives
\* for its text when run alone.
C10_ConcurrentCallsIndependent ==
    /\ [](\A c \in Callers :
            Returned(c) => call[c].result = analyze(model, vectorizer, call[c].text))
    /\ [][(detector = "bound") => (model' = model /\ vectorizer' = vectorizer)]_vars

C10_Witness ==
    \E c, d \in Callers :
        /\ c # d
        /\ Returned(c)
        /\ call[d].pc = "confidence"
        /\ call[c].vector = call[d].vector
        /\ call[c].text # call[d].text

\* C11: analyze is deterministic: two calls on the same loaded artifacts with
\* the same text return Verdicts equal in every field, whatever calls were
\* made before.
C11_SameTextSameVerdict ==
    \A c, d \in Callers :
        (Returned(c) /\ Returned(d) /\ call[c].text = call[d].text)
            => call[c].result = call[d].result

C11_Witness ==
    \E c, d \in Callers :
        /\ c # d
        /\ Returned(c) /\ Returned(d)
        /\ call[c].text = <<"A">> /\ call[d].text = <<"A">>
        /\ model.hasProba
        /\ call[c].result.confidence.num \notin {0, ProbDen}

\* C12: for a text made only of ASCII punctuation characters analyze returns
\* a valid Verdict whose processed_text is empty, the vectorizer having been
\* applied to the empty string.
OnlyPunctuation(text) ==
    /\ Len(text) > 0
    /\ \A i \in 1..Len(text) : text[i] \in Punctuation

C12_PunctuationOnlyGivesVerdict ==
    \A c \in Callers :
        (OnlyPunctuation(call[c].text) /\ call[c].pc \in {"predict", "confidence", "return", "done"})
            => /\ call[c].processed_text = <<>>
               /\ call[c].vector = Transform(vectorizer, <<>>)
               /\ Returned(c) =>
                    /\ call[c].result.processed_text = <<>>
                    /\ call[c].result.label \in {"SCAM", "SAFE"}
                    /\ call[c].result.risk_level \in {"LOW", "MEDIUM", "HIGH"}
                    /\ call[c].result.confidence.type = "float"
                    /\ call[c].result.confidence.num \in 0..ProbDen

C12_Witness ==
    \E c \in Callers :
        /\ Returned(c)
        /\ call[c].text = <<"!", "?", "!">>
        /\ call[c].result.processed_text = <<>>
        /\ call[c].result.label = "SCAM"

\* C13: every returned dictionary has exactly the six fields is_scam,
\* confidence, label, risk_level, original_text and processed_text;
\* original_text is the input unchanged and processed_text is
\* preprocess_text of the input.
C13_ResultFields ==
    \A c \in Callers :
        Returned(c)
            => /\ DOMAIN call[c].result =
                    {"is_scam", "confidence", "label", "risk_level",
                     "original_text", "processed_text"}
               /\ call[c].result.original_text = call[c].text
               /\ call[c].result.processed_text = preprocess_text(call[c].text)

C13_Witness ==
    \E c \in Callers :
        /\ Returned(c)
        /\ call[c].text = <<"A", "!", " ">>
        /\ call[c].result.original_text = <<"A", "!", " ">>
        /\ call[c].result.processed_text = <<"A", " ">>

\* C14 as stated: a request whose text is missing, empty or whitespace-only
\* is answered with HTTP 400 by either route, without detector.analyze being
\* called, and analyze only ever runs on text with a non-whitespace character.
NoUsableText(body) == ~body.hasText \/ IsBlank(body.text)

C14_BlankAnswered400 ==
    \A c \in Callers :
        /\ (req[c].pc = "responded" /\ NoUsableText(req[c].body))
              => (req[c].status = HTTP_BAD_REQUEST /\ ~req[c].called)
        /\ call[c].pc # "idle" => ~IsBlank(call[c].text)

\* C14 amended: the Flask route answers a missing, empty or whitespace-only
\* text with 400; the FastAPI route answers an empty or whitespace-only text
\* with 400 and a missing text with 422 (the request model rejects it before
\* the handler runs); in none of these cases is detector.analyze called, and
\* analyze only ever runs on text with a non-whitespace character.
C14_BlankRejectedBeforeAnalyze ==
    \A c \in Callers :
        /\ (req[c].pc = "responded" /\ NoUsableText(req[c].body))
              => /\ ~req[c].called
                 /\ req[c].status =
                      IF req[c].app = "fastapi" /\ ~req[c].body.hasText
                      THEN HTTP_UNPROCESSABLE
                      ELSE HTTP_BAD_REQUEST
        /\ (req[c].pc \in {"received", "handler"} /\ NoUsableText(req[c].body))
              => call[c].pc = "idle"
        /\ call[c].pc # "idle"
              => (~IsBlank(call[c].text) /\ req[c].called /\ ~NoUsableText(req[c].body))

C14_Witness ==
    \E c \in Callers :
        /\ req[c].pc = "responded"
        /\ req[c].app = "flask"
        /\ req[c].body = [hasText |-> TRUE, text |-> <<" ", " ">>]
        /\ req[c].status = HTTP_BAD_REQUEST
        /\ ~req[c].called

\* the call is on its last attempt and the response in hand is this attempt's
OnLastAttempt == gem.attempt = gem.max_retries - 1 /\ gem.posts = gem.attempt + 1
Ended == gem.pc \in {"returned", "raised"}

\* C15 as stated: call_gemini makes at most max_retries POSTs, goes to a
\* further attempt only while attempt < max_retries - 1 and never after an
\* error whose message contains "quota", and a 429 answered to the last
\* attempt makes it raise the quota-exceeded error.
C15_RetryBoundsAndQuotaError ==
    /\ gem.posts <= gem.max_retries
    /\ gem.pc = "sleep" => (gem.attempt < gem.max_retries - 1 /\ ~gem.error.quota)
    /\ (gem.pc = "raised" /\ OnLastAttempt /\ gem.error.kind # "RequestException"
          /\ gem.response.status = HTTP_TOO_MANY)
         => gem.error.kind = "QuotaExceeded"

\* C15, the part the code keeps: at most max_retries POSTs, one per attempt;
\* a further attempt only while attempt < max_retries - 1 and never after an
\* error whose message contains "quota"; a 429 on the last attempt is never
\* retried and raises the quota-exceeded error when its body parses; every
\* started call ends by returning or raising.
C15_BoundedRetries ==
    /\ [](/\ gem.posts <= gem.max_retries
          /\ gem.pc \in {"loop", "post"} => gem.posts = gem.attempt
          /\ gem.pc \in {"status", "raise_for_status", "parse", "http_error",
                         "except", "sleep", "returned"} => gem.posts = gem.attempt + 1
          /\ gem.pc = "sleep" => (gem.attempt < gem.max_retries - 1 /\ ~gem.error.quota)
          /\ (gem.pc = "raised" /\ OnLastAttempt /\ gem.response.status = HTTP_TOO_MANY
                /\ gem.error.kind # "RequestException" /\ gem.response.json_ok)
               => gem.error.kind = "QuotaExceeded")
    /\ [][gem'.attempt > gem.attempt
            => (gem.pc = "sleep" /\ gem'.attempt = gem.attempt + 1
                /\ gem.attempt < gem.max_retries - 1)]_vars
    /\ ((gem.pc \notin {"idle", "returned", "raised"}) ~> Ended)

C15_Witness ==
    /\ gem.pc = "raised"
    /\ gem.max_retries = 3
    /\ gem.posts = 3
    /\ gem.response = [status |-> HTTP_TOO_MANY, json_ok |-> TRUE]
    /\ gem.error = [kind |-> "QuotaExceeded", quota |-> TRUE]

\* C16: get_full_gemini_analysis never raises to its caller; the dictionary
\* it returns holds either gemini_error alone, or gemini_explanation and
\* safety_tips without gemini_error; scam_tactics and scam_type are present
\* only when is_scam is true.
Has(k) == ga.result[k] # Absent

C16_AnalysisNeverRaises ==
    /\ ga.pc # "raised"
    /\ ga.pc = "returned" =>
         /\ \/ /\ Has("gemini_error")
               /\ \A k \in ResultKeys \ {"gemini_error"} : ~Has(k)
            \/ /\ Has("gemini_explanation") /\ Has("safety_tips")
               /\ ~Has("gemini_error")
         /\ (Has("scam_tactics") \/ Has("scam_type")) => ga.is_scam

C16_Witness ==
    /\ ga.pc = "returned"
    /\ ga.is_scam
    /\ ga.lang = "other"
    /\ Truthy(ga.tactics)
    /\ ga.tips = None
    /\ ga.result["gemini_error"] = "error"
    /\ ga.result["gemini_explanation"] = Absent

====
